---- MODULE Spec2Model ----
(***************************************************************************)
(* A model of trollop (src/trollop/lib.py): the lazily hydrated Trello     *)
(* objects, their field descriptors, the sub-collection cache, the label   *)
(* mixin and the connection's request method.                              *)
(*                                                                         *)
(* Python objects are records in the sequence objs.  An object's position  *)
(* in objs is its true identity; addr is what the built-in id() returns    *)
(* for it, which CPython guarantees to be unique only among objects alive  *)
(* at the same time.  The transport (urlfetch.fetch) is the environment:   *)
(* every request gets a status code and a body chosen nondeterministically.*)
(***************************************************************************)
EXTENDS Integers, Sequences, FiniteSets, TLC

VARIABLES
    objs,    \* every LazyTrello object constructed so far, by identity
    lists,   \* SubList._lists of every SubList descriptor
    last,    \* the latest call the application made and how it ended
    threads  \* where each thread stands in the field read it is making

vars == <<objs, lists, last, threads>>

(***************************************************************************)
(* Bounds of the model.                                                    *)
(***************************************************************************)
MaxObjects == 3   \* objects constructed in one run
NumAddrs == 3     \* distinct values id() can take
MaxArray == 2     \* elements in a sub-collection response

(***************************************************************************)
(* The wrapper classes that are modelled, and their declarations.          *)
(***************************************************************************)
Classes == {"Board", "Card", "Member", "Sticker"}

\* _prefix of each class
Prefix(cls) ==
    CASE cls = "Board" -> "/boards/"
      [] cls = "Card" -> "/cards/"
      [] cls = "Member" -> "/members/"
      [] cls = "Sticker" -> "/stickers/"

\* Field() attributes: attribute name -> key in _data (TrelloMeta.__new__
\* sets the key of a Field declared without one to the attribute name)
FieldKey(cls) ==
    CASE cls = "Board" -> [name |-> "name"]
      [] cls = "Card" -> [name |-> "name"]
      [] cls = "Member" -> [fullname |-> "fullName"]
      [] cls = "Sticker" -> [image |-> "image"]

\* ObjectField attributes: attribute name -> <<key, target class>>
ObjectFields(cls) ==
    CASE cls = "Card" -> [board |-> <<"idBoard", "Board">>]
      [] OTHER -> [a \in {} |-> <<>>]

\* ListField attributes: attribute name -> <<key, target class>>
ListFields(cls) ==
    CASE cls = "Card" -> [members |-> <<"idMembers", "Member">>]
      [] OTHER -> [a \in {} |-> <<>>]

\* SubList attributes: attribute name -> target class
SubLists(cls) ==
    CASE cls = "Board" -> [cards |-> "Card", members |-> "Member"]
      [] cls = "Card" -> [stickers |-> "Sticker"]
      [] OTHER -> [a \in {} |-> ""]

\* One SubList descriptor object exists per declaration
Descriptors == UNION {{<<cls, a>> : a \in DOMAIN SubLists(cls)} : cls \in Classes}

Labeled == {"Card"}
Closable == {"Board", "Card"}
Deletable == {"Card"}

(***************************************************************************)
(* JSON values.  A JSON object is a function from keys to values, a JSON   *)
(* array a sequence.  None is the empty sequence and a present value v the *)
(* one-element sequence <<v>>.                                             *)
(***************************************************************************)
None == <<>>
Some(v) == <<v>>
IsNone(x) == Len(x) = 0

EmptyMap == [k \in {} |-> ""]

\* dict.update
Update(m, u) == [k \in DOMAIN m \cup DOMAIN u |-> IF k \in DOMAIN u THEN u[k] ELSE m[k]]

Ids == {"x1", "x2"}

\* a document of the remote service: that of the object with id i, which
\* names b as its board and b and i as its members
Doc(i, b) ==
    [k \in {"id", "name", "fullName", "idBoard", "idMembers"} |->
        CASE k = "id" -> i
          [] k = "name" -> "Demo"
          [] k = "fullName" -> "Demo"
          [] k = "idBoard" -> b
          [] k = "idMembers" -> <<b, i>>]

\* the mappings the application hands to the constructor of a card
SuppliedData == {Some(Doc("x1", "x2")), Some(Doc("x1", "x1")), Some(EmptyMap)}

\* sequences over S of length at most n
RECURSIVE SeqsUpTo(_, _)
SeqsUpTo(S, n) ==
    IF n = 0 THEN {<<>>}
    ELSE LET shorter == SeqsUpTo(S, n - 1)
         IN shorter \cup {Append(s, e) : s \in {t \in shorter : Len(t) = n - 1}, e \in S}

(***************************************************************************)
(* The transport.  A response body is either JSON text, modelled by the    *)
(* value it parses to, or text that is not JSON.                           *)
(***************************************************************************)
Statuses == {200, 201, 204, 302, 400, 404, 500}

\* the status codes drawn for the requests of the objects
ObjectStatuses == {200, 404}

Json(v) == [valid |-> TRUE, value |-> v]
NotJson == [valid |-> FALSE, value |-> "<html>"]

\* json.loads: None stands for the ValueError it raises
json_loads(content) == IF content.valid THEN Some(content.value) ELSE None

\* what GET <prefix><id> may answer
ObjectBodies(id) == {Json(Doc(id, "x2")), Json(EmptyMap)}

\* what GET <prefix><id><target prefix> may answer
ArrayBodies == {Json(a) : a \in SeqsUpTo({Doc(i, "x1") : i \in Ids}, MaxArray)}

\* the service answers with one of the bodies when the status is a success,
\* and with an error page otherwise
Responses(statuses, bodies) ==
    {r \in [status_code : statuses, content : bodies \cup {NotJson}] :
        r.content = NotJson <=> r.status_code \notin 200..299}

(***************************************************************************)
(* TrelloConnection                                                        *)
(***************************************************************************)
ApiKey == "KEY"
OauthToken == "TOKEN"

Credentials == [key |-> ApiKey, token |-> OauthToken]

StartsWithSlash(path) == Len(path) > 0 /\ SubSeq(path, 1, 1) = "/"

\* the credentials added only where the caller has given none
Url_caller_wins(path, params) ==
    [base |-> "https://api.trello.com/1",
     path |-> IF StartsWithSlash(path) THEN path ELSE "/" \o path,
     query |-> Update(Credentials, params)]

\* the request handed to urlfetch.fetch
Url(path, params) ==
    [base |-> "https://api.trello.com/1",
     path |-> IF StartsWithSlash(path) THEN path ELSE "/" \o path,
     query |-> Update(params, Credentials)]

\* the status codes request() takes for success
StatusOk(status_code) == status_code = 200

\* TrelloConnection.request, given the transport's response: the exchange
\* with the transport (the request sent and the response to it), and either
\* the content returned or the arguments of the exception raised
request(method, path, params, response) ==
    LET sent == [method |-> method, url |-> Url(path, params),
                 response |-> response]
    IN  IF ~StatusOk(response.status_code)
        THEN [sent |-> sent, raised |-> TRUE, ret |-> None,
              exc |-> Some([status_code |-> response.status_code,
                            content |-> response.content])]
        ELSE [sent |-> sent, raised |-> FALSE, ret |-> Some(response.content),
              exc |-> None]

(***************************************************************************)
(* LazyTrello objects                                                      *)
(***************************************************************************)
\* "if data:" is true of a mapping that is not empty
Truthy(data) == ~IsNone(data) /\ DOMAIN data[1] # {}

\* LazyTrello.__init__(conn, obj_id, data), for an object allocated at addr.
\* data is the _data entry of the object's __dict__, None when it has none.
\* given and fetched are history: whether a mapping was passed in, and how
\* many times __getattr__ stored a fetched mapping.
LazyTrello(cls, obj_id, data, addr) ==
    [cls |-> cls, id |-> obj_id, path |-> Prefix(cls) \o obj_id,
     data |-> IF Truthy(data) THEN data ELSE None,
     addr |-> addr, live |-> TRUE,
     given |-> ~IsNone(data), fetched |-> 0,
     subfetched |-> [a \in DOMAIN SubLists(cls) |-> 0]]

\* a test of the mapping's truth in place of its presence
HasData_truthy(obj) == Truthy(obj.data)

\* '_data' in self.__dict__
HasData(obj) == ~IsNone(obj.data)

Oids == 1..Len(objs)
Live == {o \in Oids : objs[o].live}

\* the values id() cannot return for a new object: those of objects alive
UsedAddrs == {objs[o].addr : o \in Live}

\* the values id() has returned so far
KnownAddrs == {objs[o].addr : o \in Oids}

\* The addresses n objects constructed one after the other, all kept, may
\* get.  An object is placed at any address that is free.  Addresses that
\* were never used are interchangeable, so of those only the lowest is
\* taken.
Allocs(n) ==
    IF Len(objs) + n > MaxObjects THEN {}
    ELSE {s \in [1..n -> (1..NumAddrs) \ UsedAddrs] :
              /\ \A i, j \in 1..n : i # j => s[i] # s[j]
              /\ \A i \in 1..n :
                    \/ s[i] \in KnownAddrs
                    \/ \A b \in 1..(s[i] - 1) :
                          b \in KnownAddrs \cup {s[j] : j \in 1..(i - 1)}}

\* how a call ends: it returns ret (None when it returns nothing), or it
\* raises the exception named; exc is the status code and the body that
\* the exception of TrelloConnection.request carries, None for the others
Return(ret) == [outcome |-> "ok", ret |-> ret, exc |-> None]
Raise(exception, exc) == [outcome |-> exception, ret |-> None, exc |-> exc]

\* _data set to an empty mapping ahead of the fetch, and left there when the
\* fetch raises
getattr_data_preset(self, response) ==
    IF HasData(self)
    THEN [self |-> self, requests |-> <<>>, end |-> Return(self.data)]
    ELSE LET r == request("GET", self.path, EmptyMap, response)
             v == json_loads(r.ret[1])
         IN  IF r.raised
             THEN [self |-> [self EXCEPT !.data = Some(EmptyMap)],
                   requests |-> <<r.sent>>, end |-> Raise("Exception", r.exc)]
             ELSE IF IsNone(v)
             THEN [self |-> [self EXCEPT !.data = Some(EmptyMap)],
                   requests |-> <<r.sent>>, end |-> Raise("ValueError", None)]
             ELSE [self |-> [self EXCEPT !.data = v, !.fetched = @ + 1],
                   requests |-> <<r.sent>>, end |-> Return(v)]

\* LazyTrello.__getattr__('_data'), given the transport's response if it
\* comes to a fetch: the object afterwards, the requests issued, how the
\* access ended and the mapping it returned
getattr_data(self, response) ==
    IF HasData(self)
    THEN [self |-> self, requests |-> <<>>, end |-> Return(self.data)]
    ELSE LET r == request("GET", self.path, EmptyMap, response)
             v == json_loads(r.ret[1])
         IN  IF r.raised
             THEN [self |-> self, requests |-> <<r.sent>>,
                   end |-> Raise("Exception", r.exc)]
             ELSE IF IsNone(v)
             THEN [self |-> self, requests |-> <<r.sent>>,
                   end |-> Raise("ValueError", None)]
             ELSE [self |-> [self EXCEPT !.data = v, !.fetched = @ + 1],
                   requests |-> <<r.sent>>, end |-> Return(v)]

\* the threads of the application
Threads == {"t1", "t2"}

\* a thread that is in no call: self, attr and requests are those of the
\* read it made last, outcome and ret how that read ended; fetched and data
\* are the locals of a read under way, the mapping parsed from the response
\* and the mapping that the access of _data returned
IdleThread ==
    [pc |-> "idle", self |-> 0, attr |-> "", requests |-> <<>>,
     fetched |-> None, data |-> None, outcome |-> "none", ret |-> None]

\* the record of a call: the operation, the object and the attribute or
\* argument it was made with, the requests it issued in order, and its end
Called(op, self, attr, requests, end) ==
    [op |-> op, self |-> self, attr |-> attr,
     requests |-> requests, outcome |-> end.outcome, ret |-> end.ret,
     exc |-> end.exc]

Init ==
    /\ objs = <<>>
    /\ lists = [d \in Descriptors |-> EmptyMap]
    /\ last = [op |-> "none", self |-> 0, attr |-> "",
               requests |-> <<>>, outcome |-> "ok", ret |-> None, exc |-> None]
    /\ threads = [t \in Threads |-> IdleThread]

(***************************************************************************)
(* Construction                                                            *)
(***************************************************************************)
\* the object handed out before for the same class and id is handed out again
get_object_interned(cls, obj_id) ==
    IF \E o \in Live : objs[o].cls = cls /\ objs[o].id = obj_id
    THEN LET o == CHOOSE o \in Live : objs[o].cls = cls /\ objs[o].id = obj_id
         IN  /\ last' = Called("get_object", o, cls, <<>>, Return(Some(o)))
             /\ UNCHANGED <<objs, lists, threads>>
    ELSE \E s \in Allocs(1) :
        /\ objs' = Append(objs, LazyTrello(cls, obj_id, None, s[1]))
        /\ last' = Called("get_object", Len(objs) + 1, cls, <<>>,
                          Return(Some(Len(objs) + 1)))
        /\ UNCHANGED <<lists, threads>>

\* TrelloConnection.get_board, get_card, get_member
get_object(cls, obj_id) ==
    \E s \in Allocs(1) :
        /\ objs' = Append(objs, LazyTrello(cls, obj_id, None, s[1]))
        /\ last' = Called("get_object", Len(objs) + 1, cls, <<>>, 
                          Return(Some(Len(objs) + 1)))
        /\ UNCHANGED <<lists, threads>>

\* the application constructs an object with a data mapping of its own
construct(cls, obj_id, data) ==
    \E s \in Allocs(1) :
        /\ objs' = Append(objs, LazyTrello(cls, obj_id, data, s[1]))
        /\ last' = Called("construct", Len(objs) + 1, cls, <<>>, 
                          Return(Some(Len(objs) + 1)))
        /\ UNCHANGED <<lists, threads>>

\* the objects a SubList caches are referenced by the descriptor for good
Cached == UNION {UNION {{lists[d][k].items[i] : i \in 1..Len(lists[d][k].items)}
                            : k \in DOMAIN lists[d]} : d \in Descriptors}

\* the application drops its last reference to an object, which is freed:
\* nothing of it remains but the address it had
discard(o) ==
    /\ o \in Live \ Cached
    /\ objs' = [objs EXCEPT ![o] = [LazyTrello(@.cls, @.id, None, @.addr)
                                       EXCEPT !.live = FALSE]]
    /\ last' = Called("discard", o, "", <<>>, Return(None))
    /\ UNCHANGED <<lists, threads>>

(***************************************************************************)
(* Field descriptors                                                       *)
(***************************************************************************)
\* Field.__get__
Field_get(o, a) ==
    /\ o \in Live
    /\ a \in DOMAIN FieldKey(objs[o].cls)
    /\ \E response \in Responses(ObjectStatuses, ObjectBodies(objs[o].id)) :
        LET g == getattr_data(objs[o], response)
            data == g.end.ret[1]
            key == FieldKey(objs[o].cls)[a]
        IN  /\ objs' = [objs EXCEPT ![o] = g.self]
            /\ last' = IF g.end.outcome # "ok"
                        THEN Called("Field", o, a, g.requests, g.end)
                       ELSE IF key \notin DOMAIN data
                        THEN Called("Field", o, a, g.requests, Raise("KeyError", None))
                       ELSE Called("Field", o, a, g.requests, Return(Some(data[key])))
            /\ UNCHANGED <<lists, threads>>

\* the related object constructed around a stub mapping holding its id
related_instances_stub(cls, ids, addrs) ==
    [i \in 1..Len(ids) |->
        LazyTrello(cls, ids[i], Some([k \in {"id"} |-> ids[i]]), addrs[i])]

\* the related objects constructed from the last id to the first
related_instances_reversed(cls, ids, addrs) ==
    [i \in 1..Len(ids) |-> LazyTrello(cls, ids[Len(ids) + 1 - i], None, addrs[i])]

\* ObjectField.related_instance, for each of the ids in turn
related_instances(cls, ids, addrs) ==
    [i \in 1..Len(ids) |-> LazyTrello(cls, ids[i], None, addrs[i])]

\* ObjectField.__get__
ObjectField_get(o, a) ==
    /\ o \in Live
    /\ a \in DOMAIN ObjectFields(objs[o].cls)
    /\ \E response \in Responses(ObjectStatuses, ObjectBodies(objs[o].id)) :
        LET g == getattr_data(objs[o], response)
            data == g.end.ret[1]
            key == ObjectFields(objs[o].cls)[a][1]
            cls == ObjectFields(objs[o].cls)[a][2]
            after == [objs EXCEPT ![o] = g.self]
        IN  IF g.end.outcome # "ok"
            THEN /\ objs' = after
                 /\ last' = Called("ObjectField", o, a, g.requests, g.end)
                 /\ UNCHANGED <<lists, threads>>
            ELSE IF key \notin DOMAIN data
            THEN /\ objs' = after
                 /\ last' = Called("ObjectField", o, a, g.requests, Raise("KeyError", None))
                 /\ UNCHANGED <<lists, threads>>
            ELSE \E s \in Allocs(1) :
                 /\ objs' = after \o related_instances(cls, <<data[key]>>, s)
                 /\ last' = Called("ObjectField", o, a, g.requests,
                                   Return(Some(Len(objs) + 1)))
                 /\ UNCHANGED <<lists, threads>>

\* ListField.__get__
ListField_get(o, a) ==
    /\ o \in Live
    /\ a \in DOMAIN ListFields(objs[o].cls)
    /\ \E response \in Responses(ObjectStatuses, ObjectBodies(objs[o].id)) :
        LET g == getattr_data(objs[o], response)
            data == g.end.ret[1]
            key == ListFields(objs[o].cls)[a][1]
            cls == ListFields(objs[o].cls)[a][2]
            after == [objs EXCEPT ![o] = g.self]
        IN  IF g.end.outcome # "ok"
            THEN /\ objs' = after
                 /\ last' = Called("ListField", o, a, g.requests, g.end)
                 /\ UNCHANGED <<lists, threads>>
            ELSE IF key \notin DOMAIN data
            THEN /\ objs' = after
                 /\ last' = Called("ListField", o, a, g.requests, Raise("KeyError", None))
                 /\ UNCHANGED <<lists, threads>>
            ELSE LET ids == data[key]
                 IN  \E s \in Allocs(Len(ids)) :
                     /\ objs' = after \o related_instances(cls, ids, s)
                     /\ last' = Called("ListField", o, a, g.requests,
                                       Return(Some([i \in 1..Len(ids) |-> Len(objs) + i])))
                     /\ UNCHANGED <<lists, threads>>

(***************************************************************************)
(* A field read made by a thread.  Nothing in the library locks, so        *)
(* threads may switch between any two steps of Field.__get__ and           *)
(* LazyTrello.__getattr__: the look-up of _data in the instance's          *)
(* __dict__, the test in __getattr__, the fetch, the assignment of _data,  *)
(* the read of _data for the return, and the subscription by the key.      *)
(***************************************************************************)
\* what GET <prefix><id> may answer while the object is edited remotely: its
\* full document, or a shorter one with another name
ThreadBodies(id) ==
    {Json(Doc(id, "x2")),
     Json([k \in {"id", "name"} |-> IF k = "id" THEN id ELSE "Other"])}

\* the mapping assigned is merged into the one the object holds already
setattr_data_merged(self, value) ==
    [self EXCEPT !.data = IF IsNone(@) THEN value ELSE Some(Update(@[1], value[1])),
                 !.fetched = @ + 1]

\* self._data = value
setattr_data(self, value) ==
    [self EXCEPT !.data = value, !.fetched = @ + 1]

\* the thread has ended its read: its locals are gone
thread_ended(th, end) ==
    [IdleThread EXCEPT !.self = th.self, !.attr = th.attr,
                       !.requests = th.requests,
                       !.outcome = end.outcome, !.ret = end.ret]

\* thread t starts to evaluate instance.<a> of the object o: Field.__get__
thread_call(t, o, a) ==
    /\ threads[t].pc = "idle"
    /\ o \in Live
    /\ a \in DOMAIN FieldKey(objs[o].cls)
    /\ threads' = [threads EXCEPT ![t] =
                      [IdleThread EXCEPT !.pc = "lookup", !.self = o, !.attr = a]]
    /\ UNCHANGED <<objs, lists, last>>

\* instance._data: the attribute is looked up in the instance's __dict__,
\* and __getattr__ is called when it is not there
thread_lookup(t) ==
    LET th == threads[t]
    IN  /\ th.pc = "lookup"
        /\ threads' = [threads EXCEPT ![t] =
                IF HasData(objs[th.self])
                THEN [th EXCEPT !.pc = "subscript", !.data = objs[th.self].data]
                ELSE [th EXCEPT !.pc = "getattr"]]
        /\ UNCHANGED <<objs, lists, last>>

\* if not '_data' in self.__dict__
thread_getattr(t) ==
    LET th == threads[t]
    IN  /\ th.pc = "getattr"
        /\ threads' = [threads EXCEPT ![t].pc =
                IF HasData(objs[th.self]) THEN "return" ELSE "fetch"]
        /\ UNCHANGED <<objs, lists, last>>

\* json.loads(self._conn.get(self._path)); an exception ends the read
thread_fetch(t) ==
    LET th == threads[t]
    IN  /\ th.pc = "fetch"
        /\ \E response \in Responses(ObjectStatuses, ThreadBodies(objs[th.self].id)) :
            LET r == request("GET", objs[th.self].path, EmptyMap, response)
                v == json_loads(r.ret[1])
                issued == [th EXCEPT !.requests = <<r.sent>>]
            IN  IF r.raised
                THEN /\ threads' = [threads EXCEPT ![t] =
                            thread_ended(issued, Raise("Exception", r.exc))]
                     /\ last' = Called("Field", th.self, th.attr, <<r.sent>>,
                                       Raise("Exception", r.exc))
                ELSE IF IsNone(v)
                THEN /\ threads' = [threads EXCEPT ![t] =
                            thread_ended(issued, Raise("ValueError", None))]
                     /\ last' = Called("Field", th.self, th.attr, <<r.sent>>,
                                       Raise("ValueError", None))
                ELSE /\ threads' = [threads EXCEPT ![t] =
                            [issued EXCEPT !.pc = "store", !.fetched = v]]
                     /\ UNCHANGED last
        /\ UNCHANGED <<objs, lists>>

\* self._data = the mapping parsed
thread_store(t) ==
    LET th == threads[t]
    IN  /\ th.pc = "store"
        /\ objs' = [objs EXCEPT ![th.self] = setattr_data(@, th.fetched)]
        /\ threads' = [threads EXCEPT ![t].pc = "return"]
        /\ UNCHANGED <<lists, last>>

\* return self._data
thread_return(t) ==
    LET th == threads[t]
    IN  /\ th.pc = "return"
        /\ threads' = [threads EXCEPT ![t] =
                [th EXCEPT !.pc = "subscript", !.data = objs[th.self].data]]
        /\ UNCHANGED <<objs, lists, last>>

\* instance._data[self.key], which ends the read
thread_subscript(t) ==
    LET th == threads[t]
        key == FieldKey(objs[th.self].cls)[th.attr]
        end == IF key \notin DOMAIN th.data[1]
               THEN Raise("KeyError", None)
               ELSE Return(Some(th.data[1][key]))
    IN  /\ th.pc = "subscript"
        /\ threads' = [threads EXCEPT ![t] = thread_ended(th, end)]
        /\ last' = Called("Field", th.self, th.attr, th.requests, end)
        /\ UNCHANGED <<objs, lists>>

(***************************************************************************)
(* String rendering                                                        *)
(***************************************************************************)
\* LazyTrello.__unicode__; __str__ and __repr__ return str() of it
unicode(o) ==
    /\ o \in Live
    /\ \E response \in Responses(ObjectStatuses, ObjectBodies(objs[o].id)) :
        LET g == getattr_data(objs[o], response)
            data == g.end.ret[1]
            name_or_id == IF "name" \in DOMAIN data THEN data["name"] ELSE objs[o].id
        IN  /\ objs' = [objs EXCEPT ![o] = g.self]
            /\ last' = IF g.end.outcome # "ok"
                        THEN Called("unicode", o, "", g.requests, g.end)
                       ELSE Called("unicode", o, "", g.requests,
                                   Return(Some("<" \o objs[o].cls \o ": "
                                               \o name_or_id \o ">")))
            /\ UNCHANGED <<lists, threads>>

(***************************************************************************)
(* SubList                                                                 *)
(***************************************************************************)
\* list_id = "%s:%s" % (instance._id, id(instance))
list_id(instance) == instance.id \o ":" \o ToString(instance.addr)

\* the elements constructed from their ids alone
sublist_instances_by_id(cls, data, addrs) ==
    [i \in 1..Len(data) |-> LazyTrello(cls, data[i]["id"], None, addrs[i])]

\* [cls(instance._conn, d['id'], d) for d in data]
sublist_instances(cls, data, addrs) ==
    [i \in 1..Len(data) |-> LazyTrello(cls, data[i]["id"], Some(data[i]), addrs[i])]

\* the owner's own path, the target's prefix left out
sublist_path_owner(instance, cls) == instance.path

\* path = instance._prefix + instance._id + cls._prefix
sublist_path(instance, cls) == Prefix(instance.cls) \o instance.id \o Prefix(cls)

\* an empty list entered in _lists ahead of the fetch, and left there when
\* the fetch raises
SubList_get_cached_on_failure(o, a) ==
    /\ o \in Live
    /\ a \in DOMAIN SubLists(objs[o].cls)
    /\ LET instance == objs[o]
           d == <<instance.cls, a>>
           cls == SubLists(instance.cls)[a]
           path == sublist_path(instance, cls)
       IN  IF list_id(instance) \in DOMAIN lists[d]
           THEN /\ last' = Called("SubList", o, a, <<>>,
                                  Return(Some(lists[d][list_id(instance)].items)))
                /\ UNCHANGED <<objs, lists, threads>>
           ELSE \E response \in Responses(ObjectStatuses, ArrayBodies) :
                LET r == request("GET", path, EmptyMap, response)
                    v == json_loads(r.ret[1])
                IN  IF r.raised \/ IsNone(v)
                    THEN /\ last' = Called("SubList", o, a, <<r.sent>>,
                                           IF r.raised THEN Raise("Exception", r.exc)
                                                       ELSE Raise("ValueError", None))
                         /\ lists' = [lists EXCEPT ![d] =
                                (list_id(instance) :> [by |-> o, items |-> <<>>]) @@ @]
                         /\ UNCHANGED <<objs, threads>>
                    ELSE \E s \in Allocs(Len(v[1])) :
                         LET new == [i \in 1..Len(v[1]) |-> Len(objs) + i]
                         IN  /\ objs' = [objs EXCEPT ![o].subfetched[a] = @ + 1]
                                           \o sublist_instances(cls, v[1], s)
                             /\ lists' = [lists EXCEPT ![d] =
                                    (list_id(instance) :> [by |-> o, items |-> new]) @@ @]
                             /\ last' = Called("SubList", o, a, <<r.sent>>,
                                               Return(Some(new)))
                             /\ UNCHANGED threads

\* SubList.__get__ of the descriptor declared as attribute a.  An entry of
\* _lists is the list cached (items); by is history, the object whose access
\* put it there.
SubList_get(o, a) ==
    /\ o \in Live
    /\ a \in DOMAIN SubLists(objs[o].cls)
    /\ LET instance == objs[o]
           d == <<instance.cls, a>>
           cls == SubLists(instance.cls)[a]
           path == sublist_path(instance, cls)
       IN  IF list_id(instance) \in DOMAIN lists[d]
           THEN /\ last' = Called("SubList", o, a, <<>>,
                                  Return(Some(lists[d][list_id(instance)].items)))
                /\ UNCHANGED <<objs, lists, threads>>
           ELSE \E response \in Responses(ObjectStatuses, ArrayBodies) :
                LET r == request("GET", path, EmptyMap, response)
                    v == json_loads(r.ret[1])
                IN  IF r.raised
                    THEN /\ last' = Called("SubList", o, a, <<r.sent>>,
                                           Raise("Exception", r.exc))
                         /\ UNCHANGED <<objs, lists, threads>>
                    ELSE IF IsNone(v)
                    THEN /\ last' = Called("SubList", o, a, <<r.sent>>,
                                           Raise("ValueError", None))
                         /\ UNCHANGED <<objs, lists, threads>>
                    ELSE \E s \in Allocs(Len(v[1])) :
                         LET new == [i \in 1..Len(v[1]) |-> Len(objs) + i]
                         IN  /\ objs' = [objs EXCEPT ![o].subfetched[a] = @ + 1]
                                           \o sublist_instances(cls, v[1], s)
                             /\ lists' = [lists EXCEPT ![d] =
                                    (list_id(instance) :> [by |-> o, items |-> new]) @@ @]
                             /\ last' = Called("SubList", o, a, <<r.sent>>,
                                               Return(Some(new)))
                             /\ UNCHANGED threads

(***************************************************************************)
(* Mixins                                                                  *)
(***************************************************************************)
\* what the service may answer to a request whose answer is not parsed
AnyBodies == {Json(EmptyMap)}

\* the document in the response kept as the object's mapping
Remote_caching(op, o, attr, method, path, params) ==
    \E response \in Responses(ObjectStatuses, AnyBodies) :
        LET r == request(method, path, params, response)
        IN  /\ last' = Called(op, o, attr, <<r.sent>>,
                              IF r.raised THEN Raise("Exception", r.exc)
                                          ELSE Return(None))
            /\ objs' = [objs EXCEPT ![o].data =
                            IF r.raised THEN @ ELSE json_loads(r.ret[1])]
            /\ UNCHANGED <<lists, threads>>

\* the object's mapping dropped once the remote object has been changed
Remote_invalidating(op, o, attr, method, path, params) ==
    \E response \in Responses(ObjectStatuses, AnyBodies) :
        LET r == request(method, path, params, response)
        IN  /\ last' = Called(op, o, attr, <<r.sent>>,
                              IF r.raised THEN Raise("Exception", r.exc)
                                          ELSE Return(None))
            /\ objs' = [objs EXCEPT ![o].data = IF r.raised THEN @ ELSE None]
            /\ UNCHANGED <<lists, threads>>

\* a call that issues one request and returns nothing
Remote(op, o, attr, method, path, params) ==
    \E response \in Responses(ObjectStatuses, AnyBodies) :
        LET r == request(method, path, params, response)
        IN  /\ last' = Called(op, o, attr, <<r.sent>>,
                              IF r.raised THEN Raise("Exception", r.exc)
                                          ELSE Return(None))
            /\ UNCHANGED <<objs, lists, threads>>

\* the id in the path taken from the object's mapping, self._data['id'],
\* in place of self._id
close_by_data_id(o) ==
    /\ o \in Live
    /\ objs[o].cls \in Closable
    /\ \E response \in Responses(ObjectStatuses, ObjectBodies(objs[o].id)) :
        LET g == getattr_data(objs[o], response)
            data == g.end.ret[1]
        IN  /\ objs' = [objs EXCEPT ![o] = g.self]
            /\ UNCHANGED <<lists, threads>>
            /\ IF g.end.outcome # "ok"
               THEN last' = Called("close", o, "", g.requests, g.end)
               ELSE IF "id" \notin DOMAIN data
               THEN last' = Called("close", o, "", g.requests, Raise("KeyError", None))
               ELSE \E answer \in Responses(ObjectStatuses, AnyBodies) :
                    LET r == request("PUT", Prefix(objs[o].cls) \o data["id"] \o "/closed",
                                     [value |-> "true"], answer)
                    IN  last' = Called("close", o, "", g.requests \o <<r.sent>>,
                                       IF r.raised THEN Raise("Exception", r.exc)
                                                   ELSE Return(None))

\* Closable.close
close(o) ==
    /\ o \in Live
    /\ objs[o].cls \in Closable
    /\ Remote("close", o, "", "PUT", Prefix(objs[o].cls) \o objs[o].id \o "/closed",
              [value |-> "true"])

\* Deletable.delete
delete(o) ==
    /\ o \in Live
    /\ objs[o].cls \in Deletable
    /\ Remote("delete", o, "", "DELETE", Prefix(objs[o].cls) \o objs[o].id, EmptyMap)

\* str.lower
UpperCase == "ABCDEFGHIJKLMNOPQRSTUVWXYZ"
LowerCase == "abcdefghijklmnopqrstuvwxyz"

lower_char(c) ==
    IF \E i \in 1..Len(UpperCase) : SubSeq(UpperCase, i, i) = c
    THEN LET i == CHOOSE i \in 1..Len(UpperCase) : SubSeq(UpperCase, i, i) = c
         IN  SubSeq(LowerCase, i, i)
    ELSE c

\* the color taken as it is written
lower_unchanged(s) == s

RECURSIVE lower(_)
lower(s) ==
    IF Len(s) = 0 THEN ""
    ELSE lower_char(SubSeq(s, 1, 1)) \o lower(SubSeq(s, 2, Len(s)))

\* Labeled._valid_label_colors
_valid_label_colors == {"green", "yellow", "orange", "red", "purple", "blue"}

\* "color not in self._valid_label_colors", after color = color.lower()
invalid_color(color) == color \notin _valid_label_colors

\* the colors the application calls set_label and clear_label with
Colors == {"green", "yellow", "orange", "red", "purple", "blue",
           "GREEN", "Yellow", "oRANGE", "Red", "RED", "PURPLE", "bluE",
           "teal", "TEAL", "", "re", "redd", "r-e-d", "Black"}

\* Labeled.set_label
set_label(o, color) ==
    /\ o \in Live
    /\ objs[o].cls \in Labeled
    /\ LET lowered == lower(color)
       IN  IF invalid_color(lowered)
           THEN /\ last' = Called("set_label", o, color, <<>>,
                                  Raise("ValueError", None))
                /\ UNCHANGED <<objs, lists, threads>>
           ELSE Remote("set_label", o, color, "POST",
                       Prefix(objs[o].cls) \o objs[o].id \o "/labels",
                       [value |-> lowered])

\* Labeled.clear_label
clear_label(o, color) ==
    /\ o \in Live
    /\ objs[o].cls \in Labeled
    /\ LET lowered == lower(color)
       IN  IF invalid_color(lowered)
           THEN /\ last' = Called("clear_label", o, color, <<>>,
                                  Raise("ValueError", None))
                /\ UNCHANGED <<objs, lists, threads>>
           ELSE Remote("clear_label", o, color, "DELETE",
                       Prefix(objs[o].cls) \o objs[o].id \o "/labels/" \o lowered,
                       EmptyMap)

(***************************************************************************)
(* The application using TrelloConnection.request itself                   *)
(***************************************************************************)
Methods == {"GET", "POST", "PUT", "DELETE"}
Paths == {"/boards/x1", "boards/x1", ""}
Params == {EmptyMap, [value |-> "true"],
           [key |-> "mine", token |-> "mine", filter |-> "open"]}

conn_request(method, path, params) ==
    \E response \in Responses(Statuses, AnyBodies) :
        LET r == request(method, path, params, response)
        IN  /\ last' = Called("request", 0, method, <<r.sent>>,
                              IF r.raised THEN Raise("Exception", r.exc)
                                          ELSE Return(r.ret))
            /\ UNCHANGED <<objs, lists, threads>>

(***************************************************************************)
(* The specification                                                       *)
(***************************************************************************)
\* An application that reads the fields of cards: it asks the connection
\* for a card, or constructs one around a mapping it already has.
Next ==
    \/ get_object("Card", "x1")
    \/ \E data \in SuppliedData : construct("Card", "x1", data)
    \/ \E o \in Oids : Field_get(o, "name")
    \/ \E o \in Oids : ObjectField_get(o, "board")
    \/ \E o \in Oids : ListField_get(o, "members")

Spec == Init /\ [][Next]_vars

\* An application that walks the cards of boards, reads the names of the
\* boards and of their cards, and lets go of objects it no longer needs.
NextSubLists ==
    \/ get_object("Board", "x1")
    \/ \E o \in Oids : discard(o)
    \/ \E o \in Oids : SubList_get(o, "cards")
    \/ \E o \in Oids : Field_get(o, "name")

SpecSubLists == Init /\ [][NextSubLists]_vars

\* an application that labels cards
NextLabels ==
    \/ get_object("Card", "x1")
    \/ \E o \in Oids, color \in Colors : set_label(o, color)
    \/ \E o \in Oids, color \in Colors : clear_label(o, color)

SpecLabels == Init /\ [][NextLabels]_vars

\* an application that uses the connection alone
NextRequests ==
    \E m \in Methods, p \in Paths, q \in Params : conn_request(m, p, q)

SpecRequests == Init /\ [][NextRequests]_vars

\* the colors the application of NextEntities labels its cards with
SomeColors == {"red", "Blue", "teal"}

\* An application that gets or constructs one card and uses it in every way
\* the library offers, and the connection itself; the objects it is led to
\* from the card it leaves alone.
NextEntities ==
    \/ Len(objs) = 0 /\ get_object("Card", "x1")
    \/ \E data \in SuppliedData : Len(objs) = 0 /\ construct("Card", "x1", data)
    \/ Field_get(1, "name")
    \/ ObjectField_get(1, "board")
    \/ ListField_get(1, "members")
    \/ SubList_get(1, "stickers")
    \/ unicode(1)
    \/ close(1)
    \/ delete(1)
    \/ \E color \in SomeColors : set_label(1, color)
    \/ \E color \in SomeColors : clear_label(1, color)
    \/ \E q \in Params : conn_request("PUT", "cards/x1", q)

SpecEntities == Init /\ [][NextEntities]_vars

\* An application whose two threads read the name of one card they share.
NextThreads ==
    \/ Len(objs) = 0 /\ get_object("Card", "x1")
    \/ \E t \in Threads, o \in Oids : thread_call(t, o, "name")
    \/ \E t \in Threads : thread_lookup(t)
    \/ \E t \in Threads : thread_getattr(t)
    \/ \E t \in Threads : thread_fetch(t)
    \/ \E t \in Threads : thread_store(t)
    \/ \E t \in Threads : thread_return(t)
    \/ \E t \in Threads : thread_subscript(t)

SpecThreads == Init /\ [][NextThreads]_vars

(***************************************************************************)
(* Properties                                                              *)
(***************************************************************************)
\* the calls that read a Field, an ObjectField or a ListField
FieldReads == {"Field", "ObjectField", "ListField"}

\* the object holds a data mapping
Hydrated(obj) == Len(obj.data) = 1

\* the exchange is a GET of the object's own path, <prefix><id>
IsFetchOf(exchange, obj) ==
    /\ exchange.method = "GET"
    /\ exchange.url.path = Prefix(obj.cls) \o obj.id

\* the call ended in the failure of a fetch
FetchFailed(call) == call.outcome \in {"Exception", "ValueError"}

\* C1: an object created without data is fetched once.  A field read on it
\* issues no request when the object holds its mapping, and exactly one GET of
\* <prefix><id> when it does not; when that fetch succeeds the object holds
\* the mapping fetched, so that of all the field reads on one instance exactly
\* one has stored a fetched mapping.
C1_FetchedOnce ==
    [][ /\ \A o \in Oids :
            (~objs[o].given /\ last'.op \in FieldReads /\ last'.self = o) =>
                IF Hydrated(objs[o])
                THEN last'.requests = <<>> /\ objs'[o] = objs[o]
                ELSE /\ Len(last'.requests) = 1
                     /\ IsFetchOf(last'.requests[1], objs[o])
                     /\ ~FetchFailed(last') =>
                            objs'[o].data = Some(last'.requests[1].response.content.value)
        /\ \A o \in 1..Len(objs') :
            ~objs'[o].given =>
                objs'[o].fetched = IF Hydrated(objs'[o]) THEN 1 ELSE 0
      ]_vars

\* a field read on an object fetched earlier has issued no request
C1_Witness ==
    \E o \in Oids :
        /\ ~objs[o].given /\ Hydrated(objs[o]) /\ objs[o].fetched = 1
        /\ last.op \in FieldReads /\ last.self = o /\ last.requests = <<>>

\* C2: an object constructed with a data mapping holds it from the start, is
\* never fetched, and a field read on it issues no request.
C2_SuppliedDataHydrates ==
    \A o \in Oids :
        objs[o].given =>
            /\ Hydrated(objs[o])
            /\ objs[o].fetched = 0
            /\ (last.op \in FieldReads /\ last.self = o) => last.requests = <<>>

\* C3: a field read on an object that holds no mapping issues the GET of
\* <prefix><id>; when the response is no success, the read raises the
\* connection's exception with the status code and the body, and the object
\* is left as it was, holding no mapping, so that the next read fetches again.
C3_FailedFetchNotCached ==
    [][ \A o \in Oids :
            (last'.op \in FieldReads /\ last'.self = o /\ ~Hydrated(objs[o])) =>
                /\ Len(last'.requests) = 1
                /\ IsFetchOf(last'.requests[1], objs[o])
                /\ last'.requests[1].response.status_code \notin 200..299 =>
                    /\ last'.outcome = "Exception"
                    /\ last'.exc = Some([status_code |-> last'.requests[1].response.status_code,
                                         content |-> last'.requests[1].response.content])
                    /\ objs' = objs
                    /\ ~Hydrated(objs'[o])
      ]_vars

\* a field read has failed on a 404 and left its object without a mapping
C3_Witness ==
    /\ last.op \in FieldReads
    /\ last.outcome = "Exception"
    /\ last.requests[1].response.status_code = 404
    /\ ~Hydrated(objs[last.self])

\* C4: whenever an access of a sub-collection has returned a sequence, the
\* owner instance it was made through has performed exactly one successful
\* fetch of that sub-collection, on its first access.
C4_OneFetchPerOwner ==
    /\ \A o \in Live : \A a \in DOMAIN objs[o].subfetched : objs[o].subfetched[a] <= 1
    /\ (last.op = "SubList" /\ last.outcome = "ok") =>
            objs[last.self].subfetched[last.attr] = 1

\* C5: the sequence an access of a sub-collection returns was cached by an
\* access made through the same owner instance, never through another one.
C5_CacheKeyedByInstance ==
    (last.op = "SubList" /\ last.outcome = "ok") =>
        \E k \in DOMAIN lists[<<objs[last.self].cls, last.attr>>] :
            /\ lists[<<objs[last.self].cls, last.attr>>][k].by = last.self
            /\ lists[<<objs[last.self].cls, last.attr>>][k].items = last.ret[1]

\* C6: an access of a sub-collection leaves the data mapping of its owner as
\* it was, absent if it was absent, and issues no GET of the owner's
\* <prefix><id>; a field read, which may hydrate its object, leaves every
\* sub-collection cache as it was.
C6_SubListAndDataIndependent ==
    [][ /\ \A o \in Oids :
            (last'.op = "SubList" /\ last'.self = o) =>
                /\ objs'[o].data = objs[o].data
                /\ objs'[o].fetched = objs[o].fetched
                /\ \A i \in 1..Len(last'.requests) :
                        ~IsFetchOf(last'.requests[i], objs[o])
        /\ last'.op \in FieldReads => lists' = lists
      ]_vars

\* a sub-collection was fetched through an owner that holds no mapping
C6_Witness ==
    /\ last.op = "SubList" /\ last.outcome = "ok" /\ Len(last.requests) = 1
    /\ ~Hydrated(objs[last.self])
    /\ objs[last.self].subfetched[last.attr] = 1

\* C7: the sequence a sub-collection access returns holds objects of the
\* target class that hold a mapping and were never fetched; when the access
\* fetched, the sequence has one object per element of the array in the
\* response, in its order, each holding its element as its mapping and
\* having the element's id; and a field read on an object of a cached
\* sequence issues no request.
C7_ElementsHydrated ==
    [][ /\ \A o \in Oids :
            (last'.op = "SubList" /\ last'.self = o /\ last'.outcome = "ok") =>
                LET ret == last'.ret[1]
                IN  /\ \A i \in 1..Len(ret) :
                        /\ ret[i] \in 1..Len(objs')
                        /\ Hydrated(objs'[ret[i]])
                        /\ objs'[ret[i]].fetched = 0
                        /\ objs'[ret[i]].cls = SubLists(objs[o].cls)[last'.attr]
                    /\ Len(last'.requests) = 1 =>
                        LET array == last'.requests[1].response.content.value
                        IN  /\ Len(ret) = Len(array)
                            /\ \A i \in 1..Len(array) :
                                /\ objs'[ret[i]].data = Some(array[i])
                                /\ objs'[ret[i]].id = array[i]["id"]
                            /\ \A i, j \in 1..Len(array) : i # j => ret[i] # ret[j]
        /\ \A e \in Cached :
            (last'.op \in FieldReads /\ last'.self = e) =>
                last'.requests = <<>> /\ objs'[e] = objs[e]
      ]_vars

\* a field of the second object of a fetched sequence was read without a
\* request
C7_Witness ==
    /\ last.op \in FieldReads /\ last.outcome = "ok" /\ last.requests = <<>>
    /\ \E d \in Descriptors : \E k \in DOMAIN lists[d] :
        /\ Len(lists[d][k].items) = 2
        /\ lists[d][k].items[2] = last.self
        /\ objs[lists[d][k].items[1]].id # objs[last.self].id

\* C8: an ObjectField read on an object that holds its mapping issues no
\* request and returns a new object of the target class, with the id stored
\* under the field's key and without a mapping; no other object changes, and
\* every request issued is the fetch of the object being read.
C8_RelatedObjectIsNewAndUnhydrated ==
    [][ /\ \A o \in Oids :
            (/\ last'.op = "ObjectField" /\ last'.self = o
             /\ Hydrated(objs[o])
             /\ ObjectFields(objs[o].cls)[last'.attr][1] \in DOMAIN objs[o].data[1]) =>
                /\ last'.requests = <<>>
                /\ last'.outcome = "ok"
                /\ LET n == last'.ret[1]
                   IN  /\ n \notin Oids /\ n \in 1..Len(objs')
                       /\ objs'[n].cls = ObjectFields(objs[o].cls)[last'.attr][2]
                       /\ objs'[n].id = objs[o].data[1][ObjectFields(objs[o].cls)[last'.attr][1]]
                       /\ ~Hydrated(objs'[n]) /\ objs'[n].fetched = 0
                       /\ objs'[n].live
                /\ \A m \in Oids : objs'[m] = objs[m]
        /\ \A i \in 1..Len(last'.requests) :
            /\ last'.op \in FieldReads
            /\ last'.self \in Oids
            /\ IsFetchOf(last'.requests[i], objs[last'.self])
      ]_vars

\* a second read of the same ObjectField has returned another object of the
\* same class and id, and neither holds a mapping
C8_Witness ==
    /\ last.op = "ObjectField" /\ last.outcome = "ok" /\ last.requests = <<>>
    /\ \E m \in Oids \ {last.ret[1], last.self} :
        /\ objs[m].cls = objs[last.ret[1]].cls
        /\ objs[m].id = objs[last.ret[1]].id
        /\ ~Hydrated(objs[m]) /\ ~Hydrated(objs[last.ret[1]])

\* the colors among Colors that are valid up to case, with the color each
\* stands for
ColorMeant ==
    [c \in {"green", "yellow", "orange", "red", "purple", "blue", "GREEN",
            "Yellow", "oRANGE", "Red", "RED", "PURPLE", "bluE"} |->
        CASE c \in {"green", "GREEN"} -> "green"
          [] c \in {"yellow", "Yellow"} -> "yellow"
          [] c \in {"orange", "oRANGE"} -> "orange"
          [] c \in {"red", "Red", "RED"} -> "red"
          [] c \in {"purple", "PURPLE"} -> "purple"
          [] c \in {"blue", "bluE"} -> "blue"]

\* C9: set_label and clear_label, called with a color that is valid up to
\* case, issue exactly one request, with the color in lower case: POST
\* <prefix><id>/labels with value=color, or DELETE
\* <prefix><id>/labels/<color>.  Called with any other color they raise
\* ValueError and issue no request.
C9_LabelColors ==
    last.op \in {"set_label", "clear_label"} =>
        IF last.attr \in DOMAIN ColorMeant
        THEN /\ Len(last.requests) = 1
             /\ last.outcome \in {"ok", "Exception"}
             /\ LET sent == last.requests[1]
                    path == Prefix(objs[last.self].cls) \o objs[last.self].id
                IN  IF last.op = "set_label"
                    THEN /\ sent.method = "POST"
                         /\ sent.url.path = path \o "/labels"
                         /\ "value" \in DOMAIN sent.url.query
                         /\ sent.url.query["value"] = ColorMeant[last.attr]
                    ELSE /\ sent.method = "DELETE"
                         /\ sent.url.path = path \o "/labels/" \o ColorMeant[last.attr]
        ELSE last.requests = <<>> /\ last.outcome = "ValueError"

\* set_label("PURPLE") has posted value=purple
C9_Witness ==
    /\ last.op = "set_label" /\ last.attr = "PURPLE" /\ last.outcome = "ok"
    /\ Len(last.requests) = 1
    /\ last.requests[1].url.query["value"] = "purple"

\* C10: request returns the body of the response for every 2xx status, and
\* raises an exception carrying the status code and the body for every other
\* status.
C10_FailsExactlyOnNon2xx ==
    last.op = "request" =>
        LET response == last.requests[1].response
        IN  IF response.status_code \in 200..299
            THEN last.outcome = "ok" /\ last.ret = Some(response.content)
            ELSE /\ last.outcome = "Exception"
                 /\ last.exc = Some([status_code |-> response.status_code,
                                     content |-> response.content])

\* C11: every request that any call issues, whether a call of an object or
\* a call of the connection's request itself, carries the parameters key and
\* token with the connection's own credentials, also when the caller's
\* parameters held entries named key and token.
C11_CredentialsOnEveryRequest ==
    \A i \in 1..Len(last.requests) :
        LET query == last.requests[i].url.query
        IN  /\ "key" \in DOMAIN query /\ query["key"] = ApiKey
            /\ "token" \in DOMAIN query /\ query["token"] = OauthToken

\* a request made with the caller's own key, token and filter was sent with
\* the filter and the connection's credentials
C11_Witness ==
    /\ last.op = "request" /\ Len(last.requests) = 1
    /\ DOMAIN last.requests[1].url.query = {"key", "token", "filter"}
    /\ last.requests[1].url.query["filter"] = "open"
    /\ last.requests[1].url.query["key"] = ApiKey
    /\ last.requests[1].url.query["token"] = OauthToken
    /\ \E o \in Oids : Hydrated(objs[o])

\* C12: when two threads read a field of the same object that holds no
\* mapping, each read issues at most one GET, of <prefix><id>, so that at
\* most two mappings are ever assigned to the object, the second one
\* redundant; an assignment stores the whole mapping of the assigning
\* thread's fetch in place of what was there (the last write wins) and nothing
\* else changes the mapping, so that the object never holds a mapping that is
\* not one the service answered; and a read whose own fetch has not failed
\* ends with the value of one of these mappings and leaves the object with a
\* mapping, while a read whose fetch failed raises the connection's exception.
C12_RaceOnFirstRead ==
    [][ /\ \A o \in 1..Len(objs') :
            /\ objs'[o].fetched <= 2
            /\ Hydrated(objs'[o]) =>
                    \E c \in ThreadBodies(objs'[o].id) : objs'[o].data = Some(c.value)
        /\ \A o \in Oids :
            objs'[o].data # objs[o].data =>
                \E t \in Threads : /\ threads[t].pc = "store" /\ threads[t].self = o
                                   /\ threads'[t].pc = "return"
        /\ \A t \in Threads :
            /\ Len(threads'[t].requests) <= 1
            /\ \A i \in 1..Len(threads'[t].requests) :
                    IsFetchOf(threads'[t].requests[i], objs'[threads'[t].self])
            /\ (threads[t].pc = "store" /\ threads'[t].pc = "return") =>
                    objs'[threads[t].self].data =
                        Some(threads[t].requests[1].response.content.value)
            /\ (threads[t].pc # "idle" /\ threads'[t].pc = "idle") =>
                    IF /\ Len(threads'[t].requests) = 1
                       /\ threads'[t].requests[1].response.status_code \notin 200..299
                    THEN threads'[t].outcome = "Exception"
                    ELSE /\ threads'[t].outcome = "ok"
                         /\ Hydrated(objs'[threads[t].self])
                         /\ \E c \in ThreadBodies(objs[threads[t].self].id) :
                                threads'[t].ret = Some(c.value["name"])
      ]_vars

\* both threads have fetched the same object, the second assignment has
\* replaced the first, and the two reads have returned different names
C12_Witness ==
    \E o \in Oids :
        /\ objs[o].fetched = 2
        /\ \A t \in Threads :
            /\ threads[t].pc = "idle" /\ threads[t].self = o
            /\ Len(threads[t].requests) = 1 /\ threads[t].outcome = "ok"
        /\ threads["t1"].ret # threads["t2"].ret

\* C13: once an object holds a mapping, no call changes it, whatever the
\* call is; a mapping is only ever put on an object that holds none, by a
\* call on that object which issues one GET of <prefix><id> and stores the
\* whole mapping of the response; and an object that holds a mapping from its
\* construction holds the mapping it was constructed with, so that a mapping
\* held is that of a single fetch or the one supplied.
C13_HydrationPermanentAndWhole ==
    [][ /\ \A o \in Oids :
            /\ Hydrated(objs[o]) =>
                    /\ objs'[o].data = objs[o].data
                    /\ objs'[o].fetched = objs[o].fetched
            /\ objs'[o].data # objs[o].data =>
                    /\ last'.self = o
                    /\ Len(last'.requests) = 1
                    /\ IsFetchOf(last'.requests[1], objs[o])
                    /\ objs'[o].data = Some(last'.requests[1].response.content.value)
        /\ \A n \in 1..Len(objs') :
            /\ Hydrated(objs'[n]) =>
                    /\ objs'[n].fetched <= 1
                    /\ objs'[n].fetched = 0 => objs'[n].given
            /\ (n \notin Oids /\ Hydrated(objs'[n])) =>
                    \/ last'.op = "construct" /\ objs'[n].data \in SuppliedData
                    \/ /\ last'.op = "SubList"
                       /\ \E i \in 1..Len(last'.ret[1]) :
                            /\ last'.ret[1][i] = n
                            /\ objs'[n].data =
                                 Some(last'.requests[1].response.content.value[i])
      ]_vars

\* a card that was fetched once, and whose stickers were fetched, has been
\* deleted remotely and still holds its mapping
C13_Witness ==
    /\ last.op = "delete" /\ last.outcome = "ok"
    /\ Hydrated(objs[last.self])
    /\ objs[last.self].fetched = 1
    /\ objs[last.self].subfetched["stickers"] = 1

\* C14: a factory method of the connection issues no request and returns a
\* new object without a mapping, also when an object of the same class and
\* id exists and holds one, and changes no other object; a field read changes
\* no object but the one read, and on an object without a mapping it issues
\* that object's own fetch, whatever other objects of the same class and id
\* hold.
C14_NotInterned ==
    [][ /\ last'.op = "get_object" =>
            /\ last'.requests = <<>>
            /\ last'.ret[1] \notin Oids
            /\ last'.ret[1] \in 1..Len(objs')
            /\ ~Hydrated(objs'[last'.ret[1]])
            /\ objs'[last'.ret[1]].fetched = 0
            /\ objs'[last'.ret[1]].cls = last'.attr
            /\ \A m \in Oids : objs'[m] = objs[m]
        /\ \A o \in Oids :
            (last'.op \in FieldReads /\ last'.self = o) =>
                /\ \A m \in Oids \ {o} : objs'[m] = objs[m]
                /\ ~Hydrated(objs[o]) =>
                        /\ Len(last'.requests) = 1
                        /\ IsFetchOf(last'.requests[1], objs[o])
      ]_vars

\* two cards got from the connection for the same id have each been fetched
\* by a field read of their own, the second just now, and hold different
\* mappings
C14_Witness ==
    \E o, m \in Oids :
        /\ o # m
        /\ objs[o].cls = "Card" /\ objs[m].cls = "Card" /\ objs[o].id = objs[m].id
        /\ ~objs[o].given /\ ~objs[m].given
        /\ objs[o].fetched = 1 /\ objs[m].fetched = 1
        /\ objs[o].data # objs[m].data
        /\ last.op \in FieldReads /\ last.self = m /\ Len(last.requests) = 1

\* the calls of the mixins Closable, Deletable and Labeled
Capabilities == {"close", "delete", "set_label", "clear_label"}

\* C15: close, delete, set_label and clear_label change no object and no
\* sub-collection cache: an object without a mapping stays without one and a
\* mapping held stays as it is.  close issues exactly one request, PUT
\* <prefix><id>/closed with value=true, and delete exactly one, DELETE
\* <prefix><id>; set_label and clear_label issue exactly one request unless
\* they reject the color, and then none.
C15_CapabilitiesAreRemoteOnly ==
    [][ last'.op \in Capabilities =>
            /\ objs' = objs
            /\ lists' = lists
            /\ LET path == Prefix(objs[last'.self].cls) \o objs[last'.self].id
                   sent == last'.requests[1]
               IN  /\ last'.op = "close" =>
                        /\ Len(last'.requests) = 1
                        /\ sent.method = "PUT"
                        /\ sent.url.path = path \o "/closed"
                        /\ "value" \in DOMAIN sent.url.query
                        /\ sent.url.query["value"] = "true"
                   /\ last'.op = "delete" =>
                        /\ Len(last'.requests) = 1
                        /\ sent.method = "DELETE"
                        /\ sent.url.path = path
                   /\ last'.op \in {"set_label", "clear_label"} =>
                        IF last'.outcome = "ValueError"
                        THEN last'.requests = <<>>
                        ELSE /\ Len(last'.requests) = 1
                             /\ sent.method = IF last'.op = "set_label"
                                              THEN "POST" ELSE "DELETE"
      ]_vars

\* a card without a mapping, whose stickers are cached, has been closed and
\* is still without a mapping
C15_Witness ==
    /\ last.op = "close" /\ last.outcome = "ok" /\ Len(last.requests) = 1
    /\ objs[last.self].cls = "Card"
    /\ ~Hydrated(objs[last.self])
    /\ objs[last.self].subfetched["stickers"] = 1

\* C16: a ListField read on an object that holds its mapping issues no
\* request, and on one that does not, only the GET of that object; when the
\* mapping has the field's key it returns as many objects as the sequence
\* stored under the key has ids, the i-th a new object of the target class
\* with the i-th id and without a mapping, each id as often as it is stored,
\* and the objects returned are all different.
C16_ListFieldKeepsOrderAndDuplicates ==
    [][ \A o \in Oids :
            (last'.op = "ListField" /\ last'.self = o) =>
                /\ Len(last'.requests) = IF Hydrated(objs[o]) THEN 0 ELSE 1
                /\ \A i \in 1..Len(last'.requests) :
                        IsFetchOf(last'.requests[i], objs[o])
                /\ (/\ Hydrated(objs'[o])
                    /\ ListFields(objs[o].cls)[last'.attr][1] \in DOMAIN objs'[o].data[1]) =>
                        LET ids == objs'[o].data[1][ListFields(objs[o].cls)[last'.attr][1]]
                            ret == last'.ret[1]
                        IN  /\ last'.outcome = "ok"
                            /\ Len(ret) = Len(ids)
                            /\ \A i \in 1..Len(ids) :
                                /\ ret[i] \notin Oids /\ ret[i] \in 1..Len(objs')
                                /\ objs'[ret[i]].cls = ListFields(objs[o].cls)[last'.attr][2]
                                /\ objs'[ret[i]].id = ids[i]
                                /\ ~Hydrated(objs'[ret[i]])
                                /\ objs'[ret[i]].fetched = 0
                            /\ \A i, j \in 1..Len(ids) : i # j => ret[i] # ret[j]
      ]_vars

\* a ListField read has returned two members with the same id
C16_Witness ==
    /\ last.op = "ListField" /\ last.outcome = "ok" /\ Len(last.ret[1]) = 2
    /\ objs[last.ret[1][1]].cls = "Member"
    /\ objs[last.ret[1][1]].id = objs[last.ret[1][2]].id
    /\ last.ret[1][1] # last.ret[1][2]

\* C17: an access of a sub-collection through an owner whose key is not in
\* the cache issues one GET of <prefix><id><target prefix>.  When that fetch
\* fails, the access raises the connection's exception with the status code
\* and the body, and leaves the cache and every object as they were; when it
\* succeeds, the sequence it returns is the one cached under the owner's key.
\* The key of a live owner enters the cache only by a successful access
\* through that owner, so that after a failure the owner's next access
\* fetches again.
C17_SubListFailureNotCached ==
    [][ /\ \A o \in Oids :
            (last'.op = "SubList" /\ last'.self = o) =>
                LET d == <<objs[o].cls, last'.attr>>
                    key == list_id(objs[o])
                IN  IF key \in DOMAIN lists[d]
                    THEN /\ last'.requests = <<>>
                         /\ last'.ret = Some(lists[d][key].items)
                         /\ lists' = lists
                    ELSE /\ Len(last'.requests) = 1
                         /\ last'.requests[1].method = "GET"
                         /\ last'.requests[1].url.path =
                              Prefix(objs[o].cls) \o objs[o].id
                                  \o Prefix(SubLists(objs[o].cls)[last'.attr])
                         /\ IF last'.requests[1].response.status_code \notin 200..299
                            THEN /\ last'.outcome = "Exception"
                                 /\ last'.exc =
                                      Some([status_code |->
                                                last'.requests[1].response.status_code,
                                            content |->
                                                last'.requests[1].response.content])
                                 /\ lists' = lists
                                 /\ objs' = objs
                            ELSE /\ last'.outcome = "ok"
                                 /\ key \in DOMAIN lists'[d]
                                 /\ lists'[d][key].items = last'.ret[1]
        /\ \A o \in Oids : \A a \in DOMAIN SubLists(objs[o].cls) :
            (/\ objs[o].live /\ objs'[o].live
             /\ list_id(objs[o]) \notin DOMAIN lists[<<objs[o].cls, a>>]
             /\ list_id(objs[o]) \in DOMAIN lists'[<<objs[o].cls, a>>]) =>
                /\ last'.op = "SubList" /\ last'.self = o /\ last'.attr = a
                /\ last'.outcome = "ok"
      ]_vars

\* the fetch of a board's cards has failed on a 404 and has left nothing
\* under the board's key, while the cards of another board stay cached
C17_Witness ==
    /\ last.op = "SubList" /\ last.outcome = "Exception"
    /\ last.requests[1].response.status_code = 404
    /\ list_id(objs[last.self]) \notin DOMAIN lists[<<objs[last.self].cls, last.attr>>]
    /\ DOMAIN lists[<<objs[last.self].cls, last.attr>>] # {}

\* the calls that read the mapping of their object
DataReads == FieldReads \cup {"unicode"}

\* C18 as claimed: no call but a read of a Field, an ObjectField or a
\* ListField puts a mapping on an object or issues the GET of the
\* <prefix><id> of the object it is made on, string rendering included.
C18_OnlyFieldReadsHydrate ==
    [][ last'.op \notin FieldReads =>
            /\ \A o \in Oids : objs'[o].data = objs[o].data
            /\ last'.self \in Oids =>
                    \A i \in 1..Len(last'.requests) :
                        ~IsFetchOf(last'.requests[i], objs[last'.self])
      ]_vars

\* C18 as amended: string rendering reads the mapping as a field read does:
\* on an object without a mapping it issues the GET of <prefix><id> and,
\* when the fetch succeeds, stores the mapping and renders the name in it,
\* or the id when it has no name.  No call but a field read or a rendering
\* puts a mapping on an object or issues the GET of the <prefix><id> of the
\* object it is made on.
C18_OnlyDataReadsHydrate ==
    [][ /\ last'.op \notin DataReads =>
            /\ \A o \in Oids : objs'[o].data = objs[o].data
            /\ last'.self \in Oids =>
                    \A i \in 1..Len(last'.requests) :
                        ~IsFetchOf(last'.requests[i], objs[last'.self])
        /\ \A o \in Oids :
            (last'.op = "unicode" /\ last'.self = o) =>
                /\ Len(last'.requests) = IF Hydrated(objs[o]) THEN 0 ELSE 1
                /\ \A i \in 1..Len(last'.requests) :
                        IsFetchOf(last'.requests[i], objs[o])
                /\ last'.outcome = "ok" =>
                        /\ Hydrated(objs'[o])
                        /\ last'.ret =
                             Some("<" \o objs[o].cls \o ": "
                                  \o (IF "name" \in DOMAIN objs'[o].data[1]
                                      THEN objs'[o].data[1]["name"]
                                      ELSE objs[o].id) \o ">")
      ]_vars

\* rendering a card that held no mapping has fetched it and shown its name
C18_Witness ==
    /\ last.op = "unicode" /\ last.outcome = "ok" /\ Len(last.requests) = 1
    /\ Hydrated(objs[last.self]) /\ objs[last.self].fetched = 1
    /\ last.ret = Some("<Card: Demo>")

====
